---- MODULE Spec2Model ----
(***************************************************************************)
(* Model of heatmap.py: the GeoJSON building parser, the city boundary     *)
(* resolver and the module-level script that assembles and saves the map.  *)
(*                                                                         *)
(* Three specifications:                                                   *)
(*   SpecParse    - parse_geojson_buildings applied to bounded feature     *)
(*                  lists;                                                 *)
(*   SpecBoundary - get_city_boundary applied to bounded lookup outcomes;  *)
(*   Spec         - the script, lines 100-220, one action per statement    *)
(*                  group, inputs (files, lookup) chosen when read.        *)
(*                                                                         *)
(* Numbers: JSON numbers are kept in tenths (27 is 2.7); the heatmap's     *)
(* max_val is kept in tenths as well, so that 0.4 * w is the integer 4*w.  *)
(* Calls into pandas / folium / geopandas made outside any try block with  *)
(* well-formed arguments (DataFrame, Map, HeatMap, add_child, save) are    *)
(* taken to return normally.                                               *)
(***************************************************************************)
EXTENDS Integers, Sequences, FiniteSets, TLC

VARIABLES
    pc,                 \* position of the script / of the function under check
    geojson_data,       \* parse_geojson_buildings: geojson_data['features']
    buildings_data,     \* list of <<lat, lon, weight>>
    max_weight,         \* df_buildings['weight'].max()
    polygon_city,       \* outcome of ox.geometries_from_place
    city_boundary,      \* result of get_city_boundary
    lookups,            \* number of boundary lookups performed
    hmap,               \* children of the main map, in add order
    hm,                 \* the HeatMap object
    branches,           \* outcome of read_csv('data/branches.csv')
    filial_markers,     \* markers added to the branch feature group
    competitor,         \* outcome of read_csv('data/competitors.csv')
    competitor_markers, \* markers added to the competitor feature group
    files,              \* files written, in write order
    houses_file         \* outcome of opening and decoding data/houses.geojson

vars == <<pc, geojson_data, buildings_data, max_weight, polygon_city,
          city_boundary, lookups, hmap, hm, branches, filial_markers,
          competitor, competitor_markers, files, houses_file>>

---------------------------------------------------------------------------
(* Bounds *)

MaxFeatures == 2
MaxPolygons == 2
MaxLookupRows == 1
MaxRows == 2

SeqsUpTo(S, n) == UNION {[1..k -> S] : k \in 0..n}

---------------------------------------------------------------------------
(* Python int() and truthiness on the values a JSON property can hold *)

Digits == {"0", "1", "2", "3", "4", "5", "6", "7", "8", "9"}

DigitVal(c) ==
    CASE c = "0" -> 0 [] c = "1" -> 1 [] c = "2" -> 2 [] c = "3" -> 3
      [] c = "4" -> 4 [] c = "5" -> 5 [] c = "6" -> 6 [] c = "7" -> 7
      [] c = "8" -> 8 [] c = "9" -> 9

RECURSIVE LStrip(_)
LStrip(s) == IF s # <<>> /\ Head(s) = " " THEN LStrip(Tail(s)) ELSE s

RECURSIVE RStrip(_)
RStrip(s) ==
    IF s # <<>> /\ s[Len(s)] = " " THEN RStrip(SubSeq(s, 1, Len(s) - 1)) ELSE s

RECURSIVE DigitsValue(_, _)
DigitsValue(s, acc) ==
    IF s = <<>> THEN acc ELSE DigitsValue(Tail(s), 10 * acc + DigitVal(Head(s)))

\* int(str): surrounding whitespace stripped, optional sign, then one or
\* more decimal digits; anything else is a ValueError.
IntOfStr(chars) ==
    LET t    == RStrip(LStrip(chars))
        neg  == t # <<>> /\ Head(t) = "-"
        sgn  == t # <<>> /\ Head(t) \in {"-", "+"}
        body == IF sgn THEN Tail(t) ELSE t
    IN  IF body # <<>> /\ \A i \in 1..Len(body) : body[i] \in Digits
        THEN [ok |-> TRUE,
              val |-> IF neg THEN 0 - DigitsValue(body, 0) ELSE DigitsValue(body, 0)]
        ELSE [ok |-> FALSE, val |-> 0]

\* int(number): truncation toward zero (the number is held in tenths).
IntOfNum(tenths) ==
    IF tenths >= 0 THEN tenths \div 10 ELSE 0 - ((0 - tenths) \div 10)

\* int(x) for a property value; ok = FALSE stands for ValueError / TypeError.
PyInt(v) ==
    CASE v.kind = "str"  -> IntOfStr(v.chars)
      [] v.kind = "num"  -> [ok |-> TRUE, val |-> IntOfNum(v.tenths)]
      [] OTHER           -> [ok |-> FALSE, val |-> 0]

\* bool(x): None, "", 0, 0.0 and [] are falsy.
Truthy(v) ==
    CASE v.kind = "str"  -> v.chars # <<>>
      [] v.kind = "num"  -> v.tenths # 0
      [] v.kind = "list" -> v.len > 0
      [] OTHER           -> FALSE

---------------------------------------------------------------------------
(* GeoJSON features *)

Str(c)  == [kind |-> "str",    chars |-> c,    tenths |-> 0, len |-> 0]
Num(t)  == [kind |-> "num",    chars |-> <<>>, tenths |-> t, len |-> 0]
List(n) == [kind |-> "list",   chars |-> <<>>, tenths |-> 0, len |-> n]
Absent  == [kind |-> "absent", chars |-> <<>>, tenths |-> 0, len |-> 0]
Null    == [kind |-> "null",   chars |-> <<>>, tenths |-> 0, len |-> 0]

\* Values of properties['building:levels'] the inputs are drawn from.
LevelValues ==
    { Absent, Null, List(0), List(1),
      Str(<<>>), Str(<<"0">>), Str(<<"3">>), Str(<<"1", "2">>),
      Str(<<"-", "2">>), Str(<<" ", "3">>), Str(<<"a">>), Str(<<"2", ".", "5">>),
      Num(0), Num(30), Num(0 - 20), Num(27) }

Feature(g, t, hc, c, p, lv) ==
    [geometry |-> g, gtype |-> t, has_coordinates |-> hc, coordinates |-> c,
     properties |-> p, levels |-> lv]

Point(c, p, lv) == Feature("dict", "Point", TRUE, c, p, lv)

\* Feature lists of SpecParse: every levels value on a Point, a second
\* coordinate pair, and every shape of geometry / properties.
ParseFeatures ==
    { Point(<<44, 56>>, "dict", lv) : lv \in LevelValues }
    \cup { Point(<<43, 57>>, "dict", Str(<<"3">>)),
           Point(<<44, 56>>, "absent", Absent),
           Point(<<44, 56>>, "null", Absent),
           Point(<<44, 56, 120>>, "dict", Str(<<"3">>)),
           Feature("dict", "Point", FALSE, <<>>, "dict", Str(<<"3">>)),
           Feature("dict", "LineString", TRUE, <<>>, "dict", Str(<<"3">>)),
           Feature("dict", "LineString", TRUE, <<>>, "null", Absent),
           Feature("absent", "none", FALSE, <<>>, "dict", Str(<<"3">>)),
           Feature("null", "none", FALSE, <<>>, "dict", Str(<<"3">>)) }

\* Feature lists of the script's run: enough to vary the weights, to skip
\* a feature and to make the parser raise.
ScriptFeatures ==
    { Point(<<44, 56>>, "dict", Str(<<"3">>)),
      Point(<<44, 56>>, "dict", Absent),
      Point(<<44, 56>>, "dict", Str(<<"-", "2">>)),
      Feature("dict", "LineString", TRUE, <<>>, "dict", Absent),
      Feature("null", "none", FALSE, <<>>, "dict", Absent) }

---------------------------------------------------------------------------
(* parse_geojson_buildings, lines 9-43 *)

WeightPerFloor == 10

\* Floors with the default floor count 0 instead of 1.
Floors_DefaultZero(feature) ==
    LET building_levels ==
            IF feature.properties = "absent" THEN Absent ELSE feature.levels
    IN  IF Truthy(building_levels)
        THEN IF PyInt(building_levels).ok THEN PyInt(building_levels).val ELSE 0
        ELSE 0

\* lines 30-38: the floor count of one feature
Floors(feature) ==
    LET building_levels ==
            IF feature.properties = "absent" THEN Absent ELSE feature.levels
    IN  IF Truthy(building_levels)
        THEN IF PyInt(building_levels).ok THEN PyInt(building_levels).val ELSE 1
        ELSE 1

\* lines 19-41: one iteration of the loop.
\*   "raise": an exception leaves the function (None.get, bad unpacking)
\*   "skip" : continue
\*   "emit" : a point is appended
FeatureStep(feature) ==
    IF feature.geometry = "null"
    THEN [outcome |-> "raise", point |-> <<>>]
    ELSE IF ~(feature.geometry = "dict" /\ feature.gtype = "Point"
              /\ feature.has_coordinates)
    THEN [outcome |-> "skip", point |-> <<>>]
    ELSE IF Len(feature.coordinates) # 2
    THEN [outcome |-> "raise", point |-> <<>>]
    ELSE IF feature.properties = "null"
    THEN [outcome |-> "raise", point |-> <<>>]
    ELSE LET longitude == feature.coordinates[1]
             latitude  == feature.coordinates[2]
         IN  [outcome |-> "emit",
              point |-> <<latitude, longitude, Floors(feature) * WeightPerFloor>>]

RECURSIVE ParseLoop(_, _, _)
ParseLoop(features, i, buildings_list) ==
    IF i > Len(features)
    THEN [raised |-> FALSE, buildings_list |-> buildings_list]
    ELSE LET step == FeatureStep(features[i])
         IN  CASE step.outcome = "raise" ->
                    [raised |-> TRUE, buildings_list |-> buildings_list]
               [] step.outcome = "skip" ->
                    ParseLoop(features, i + 1, buildings_list)
               [] OTHER ->
                    ParseLoop(features, i + 1, Append(buildings_list, step.point))

parse_geojson_buildings(features) == ParseLoop(features, 1, <<>>)

---------------------------------------------------------------------------
(* get_city_boundary, lines 60-98 *)

\* Names are word sequences; str.contains is a contiguous-subsequence test.
Contains(name, pat) ==
    \E i \in 0..(Len(name) - Len(pat)) :
        \A j \in 1..Len(pat) : name[i + j] = pat[j]

NameRu == <<"Nizhnij", "Novgorod">>
NameEn == <<"Nizhny", "Novgorod">>

\* An arbitrary polygon returned by the lookup (hundredths of a degree).
OsmPolygon == <<<<5625, 4390>>, <<5625, 4400>>, <<5635, 4400>>, <<5625, 4390>>>>

OsmRow(na, name, level) ==
    [na |-> na, name |-> name, admin_level |-> level, geometry |-> OsmPolygon]

\* lines 82-88, in hundredths of a degree
nizhny_novgorod_bounds ==
    <<<<5620, 4380>>, <<5620, 4410>>, <<5640, 4410>>, <<5640, 4380>>,
      <<5620, 4380>>>>

\* lines 90-93
manual_polygon ==
    <<[na |-> FALSE, name |-> <<"Nizhnij", "Novgorod", "(manual)">>,
       admin_level |-> "", geometry |-> nizhny_novgorod_bounds]>>

\* The filter with the admin_level '6' alternative left out.
Matches_NoLevel6(row) ==
    \/ ~row.na /\ Contains(row.name, NameRu)
    \/ ~row.na /\ Contains(row.name, NameEn)
    \/ row.admin_level = "8"

\* lines 69-74: the row filter (na=False: a missing name never matches)
Matches(row) ==
    \/ ~row.na /\ Contains(row.name, NameRu)
    \/ ~row.na /\ Contains(row.name, NameEn)
    \/ row.admin_level = "8"
    \/ row.admin_level = "6"

None == [none |-> TRUE, rows |-> <<>>]
Frame(rows) == [none |-> FALSE, rows |-> rows]

\* get_city_boundary that falls back to the rectangle on an exception too.
get_city_boundary_FallbackOnError(outcome) ==
    IF outcome.status = "raised"
    THEN Frame(manual_polygon)
    ELSE LET polygon_filtered == SelectSeq(outcome.rows, Matches)
         IN  IF Len(polygon_filtered) > 0
             THEN Frame(polygon_filtered)
             ELSE Frame(manual_polygon)

\* lines 64-98. outcome.status = "raised": geometries_from_place (or the
\* filter) raised, the except branch returns None.
get_city_boundary(outcome) ==
    IF outcome.status = "raised"
    THEN None
    ELSE LET polygon_filtered == SelectSeq(outcome.rows, Matches)
         IN  IF Len(polygon_filtered) > 0
             THEN Frame(polygon_filtered)
             ELSE Frame(manual_polygon)

Raised == [status |-> "raised", rows |-> <<>>]
Returned(rows) == [status |-> "returned", rows |-> rows]

\* Rows the lookup can return in SpecBoundary.
BoundaryRows ==
    { OsmRow(FALSE, n, l) :
        n \in { NameRu, NameEn, <<"gorod", "Nizhnij", "Novgorod">>,
                <<"Kstovo">>, <<"Nizhnij">> },
        l \in { "8", "6", "4" } }
    \cup { OsmRow(TRUE, <<>>, "4"), OsmRow(TRUE, <<>>, "8") }

BoundaryLookups ==
    {Raised} \cup { Returned(rows) : rows \in SeqsUpTo(BoundaryRows, MaxPolygons) }

\* Rows the lookup can return in the script's run.
ScriptRows == { OsmRow(FALSE, NameRu, "4"), OsmRow(FALSE, <<"Kstovo">>, "4") }

ScriptLookups ==
    {Raised} \cup { Returned(rows) : rows \in SeqsUpTo(ScriptRows, MaxLookupRows) }

---------------------------------------------------------------------------
(* State shared by the three specifications *)

NaNValue == [nan |-> TRUE, val |-> 0]
Number(n) == [nan |-> FALSE, val |-> n]

Unset     == [status |-> "unset", rows |-> <<>>]
NoHeatMap == [built |-> FALSE, max_val |-> NaNValue]

\* Everything the script has not touched yet.
ScriptIdle ==
    /\ buildings_data = <<>>
    /\ max_weight = NaNValue
    /\ lookups = 0
    /\ hmap = <<>>
    /\ hm = NoHeatMap
    /\ branches = Unset
    /\ filial_markers = <<>>
    /\ competitor = Unset
    /\ competitor_markers = <<>>
    /\ files = <<>>
    /\ houses_file = "unread"

---------------------------------------------------------------------------
(* SpecParse: the parser applied to a feature list *)

InitParse ==
    /\ pc = "parse"
    /\ geojson_data \in SeqsUpTo(ParseFeatures, MaxFeatures)
    /\ polygon_city = Unset
    /\ city_boundary = None
    /\ ScriptIdle

ParseReturns ==
    /\ pc = "parse"
    /\ ~parse_geojson_buildings(geojson_data).raised
    /\ buildings_data' = parse_geojson_buildings(geojson_data).buildings_list
    /\ pc' = "returned"
    /\ UNCHANGED <<geojson_data, max_weight, polygon_city, city_boundary, lookups,
                   hmap, hm, branches, filial_markers, competitor,
                   competitor_markers, files, houses_file>>

ParseRaises ==
    /\ pc = "parse"
    /\ parse_geojson_buildings(geojson_data).raised
    /\ pc' = "raised"
    /\ UNCHANGED <<geojson_data, buildings_data, max_weight, polygon_city,
                   city_boundary, lookups, hmap, hm, branches, filial_markers,
                   competitor, competitor_markers, files, houses_file>>

NextParse == ParseReturns \/ ParseRaises

SpecParse == InitParse /\ [][NextParse]_vars

---------------------------------------------------------------------------
(* SpecBoundary: the resolver applied to a lookup outcome *)

InitBoundary ==
    /\ pc = "lookup"
    /\ geojson_data = <<>>
    /\ polygon_city \in BoundaryLookups
    /\ city_boundary = None
    /\ ScriptIdle

ResolveBoundary ==
    /\ pc = "lookup"
    /\ city_boundary' = get_city_boundary(polygon_city)
    /\ lookups' = lookups + 1
    /\ pc' = "resolved"
    /\ UNCHANGED <<geojson_data, buildings_data, max_weight, polygon_city, hmap,
                   hm, branches, filial_markers, competitor, competitor_markers,
                   files, houses_file>>

NextBoundary == ResolveBoundary

SpecBoundary == InitBoundary /\ [][NextBoundary]_vars

---------------------------------------------------------------------------
(* The script, lines 100-220 *)

\* Outcomes of opening and decoding data/houses.geojson (lines 13-14).
HouseFiles ==
    { [status |-> "missing", features |-> <<>>],
      [status |-> "malformed", features |-> <<>>] }
    \cup { [status |-> "decoded", features |-> fs] :
             fs \in SeqsUpTo(ScriptFeatures, MaxFeatures) }

\* Rows of a marker CSV: cells as pandas hands them over.
CsvRow(name, lat, lon) == [name |-> name, lat |-> lat, lon |-> lon]
CsvRows == { CsvRow("A", "56.3", "44.0"), CsvRow("B", "nan", "44.0") }

\* Outcomes of pd.read_csv: FileNotFoundError, another exception, a frame.
CsvOutcomes ==
    { [status |-> "missing", rows |-> <<>>], [status |-> "error", rows |-> <<>>] }
    \cup { [status |-> "read", rows |-> rows] : rows \in SeqsUpTo(CsvRows, MaxRows) }

\* folium.Marker raises on a location that is not two finite numbers.
MarkerRaises(row) == row.lat = "nan" \/ row.lon = "nan"

Marker(row) == <<row.lat, row.lon, row.name>>

\* lines 168-177 / 191-196: the loop over the rows, stopped by the first
\* row that raises.
RECURSIVE MarkerLoop(_, _, _)
MarkerLoop(rows, i, markers) ==
    IF i > Len(rows)
    THEN [raised |-> FALSE, markers |-> markers]
    ELSE IF MarkerRaises(rows[i])
    THEN [raised |-> TRUE, markers |-> markers]
    ELSE MarkerLoop(rows, i + 1, Append(markers, Marker(rows[i])))

\* The try block with the feature group attached before the rows are read.
LoadCsv_AttachBeforeLoop(csv) ==
    IF csv.status # "read"
    THEN [attached |-> FALSE, markers |-> <<>>]
    ELSE [attached |-> TRUE, markers |-> MarkerLoop(csv.rows, 1, <<>>).markers]

\* The try block with an empty feature group attached before read_csv.
LoadCsv_AttachBeforeRead(csv) ==
    IF csv.status # "read"
    THEN [attached |-> TRUE, markers |-> <<>>]
    ELSE LET loop == MarkerLoop(csv.rows, 1, <<>>)
         IN  [attached |-> TRUE, markers |-> loop.markers]

\* lines 164-184 / 187-203: one try block. attached: add_child was reached.
LoadCsv(csv) ==
    IF csv.status # "read"
    THEN [attached |-> FALSE, markers |-> <<>>]
    ELSE LET loop == MarkerLoop(csv.rows, 1, <<>>)
         IN  [attached |-> ~loop.raised, markers |-> loop.markers]

\* The smallest weight instead of the largest.
MaxWeight_Min(data) ==
    IF data = <<>>
    THEN NaNValue
    ELSE Number(CHOOSE w \in {data[i][3] : i \in 1..Len(data)} :
                    \A j \in 1..Len(data) : w <= data[j][3])

\* line 105: df_buildings['weight'].max(); NaN on an empty frame.
MaxWeight(data) ==
    IF data = <<>>
    THEN NaNValue
    ELSE Number(CHOOSE w \in {data[i][3] : i \in 1..Len(data)} :
                    \A j \in 1..Len(data) : w >= data[j][3])

\* 0.4 in tenths
MaxValFactor == 4

\* line 143: max_weight * 0.4, in tenths; NaN stays NaN.
MaxVal(w) == [nan |-> w.nan, val |-> MaxValFactor * w.val]

Init ==
    /\ pc = "load"
    /\ geojson_data = <<>>
    /\ polygon_city = Unset
    /\ city_boundary = None
    /\ ScriptIdle

\* The load with a failure swallowed: the script goes on with no building.
LoadBuildings_Swallow ==
    /\ pc = "load"
    /\ \E file \in HouseFiles :
          LET r == IF file.status = "decoded"
                   THEN parse_geojson_buildings(file.features)
                   ELSE [raised |-> TRUE, buildings_list |-> <<>>]
          IN  /\ houses_file' = file.status
              /\ buildings_data' = IF r.raised THEN <<>> ELSE r.buildings_list
              /\ pc' = "max"
    /\ UNCHANGED <<geojson_data, max_weight, polygon_city, city_boundary, lookups,
                   hmap, hm, branches, filial_markers, competitor,
                   competitor_markers, files>>

\* line 101: an exception of open, json.load or the loop is not caught and
\* ends the process.
LoadBuildings ==
    /\ pc = "load"
    /\ \E file \in HouseFiles :
          LET r == IF file.status = "decoded"
                   THEN parse_geojson_buildings(file.features)
                   ELSE [raised |-> TRUE, buildings_list |-> <<>>]
          IN  /\ houses_file' = file.status
              /\ buildings_data' = IF r.raised THEN <<>> ELSE r.buildings_list
              /\ pc' = IF r.raised THEN "aborted" ELSE "max"
    /\ UNCHANGED <<geojson_data, max_weight, polygon_city, city_boundary, lookups,
                   hmap, hm, branches, filial_markers, competitor,
                   competitor_markers, files>>

\* lines 104-108
ComputeMax ==
    /\ pc = "max"
    /\ max_weight' = MaxWeight(buildings_data)
    /\ pc' = "boundary"
    /\ UNCHANGED <<geojson_data, buildings_data, polygon_city, city_boundary,
                   lookups, hmap, hm, branches, filial_markers, competitor,
                   competitor_markers, files, houses_file>>

\* line 112
GetCityBoundary ==
    /\ pc = "boundary"
    /\ \E outcome \in ScriptLookups :
          /\ polygon_city' = outcome
          /\ city_boundary' = get_city_boundary(outcome)
    /\ lookups' = lookups + 1
    /\ pc' = "map"
    /\ UNCHANGED <<geojson_data, buildings_data, max_weight, hmap, hm, branches,
                   filial_markers, competitor, competitor_markers, files,
                   houses_file>>

\* lines 115-135: the map is created and the boundary layer added to it
AddBoundaryLayer ==
    /\ pc = "map"
    /\ hmap' = IF ~city_boundary.none THEN <<"city_boundary_layer">> ELSE <<>>
    /\ pc' = "heatmap"
    /\ UNCHANGED <<geojson_data, buildings_data, max_weight, polygon_city,
                   city_boundary, lookups, hm, branches, filial_markers,
                   competitor, competitor_markers, files, houses_file>>

\* The heat map layer made a child of the map as soon as it is built.
BuildHeatMap_AddsLayerEarly ==
    /\ pc = "heatmap"
    /\ hm' = [built |-> TRUE, max_val |-> MaxVal(max_weight)]
    /\ hmap' = Append(hmap, "building_density")
    /\ pc' = "branches"
    /\ UNCHANGED <<geojson_data, buildings_data, max_weight, polygon_city,
                   city_boundary, lookups, branches, filial_markers, competitor,
                   competitor_markers, files, houses_file>>

\* lines 138-161: the heat map is built and put into building_density,
\* which is not yet a child of the map
BuildHeatMap ==
    /\ pc = "heatmap"
    /\ hm' = [built |-> TRUE, max_val |-> MaxVal(max_weight)]
    /\ pc' = "branches"
    /\ UNCHANGED <<geojson_data, buildings_data, max_weight, polygon_city,
                   city_boundary, lookups, hmap, branches, filial_markers,
                   competitor, competitor_markers, files, houses_file>>

\* lines 164-184
LoadBranches ==
    /\ pc = "branches"
    /\ \E csv \in CsvOutcomes :
          /\ branches' = csv
          /\ filial_markers' = LoadCsv(csv).markers
          /\ hmap' = IF LoadCsv(csv).attached
                     THEN Append(hmap, "filial_markers") ELSE hmap
    /\ pc' = "competitors"
    /\ UNCHANGED <<geojson_data, buildings_data, max_weight, polygon_city,
                   city_boundary, lookups, hm, competitor, competitor_markers,
                   files, houses_file>>

\* lines 187-203
LoadCompetitors ==
    /\ pc = "competitors"
    /\ \E csv \in CsvOutcomes :
          /\ competitor' = csv
          /\ competitor_markers' = LoadCsv(csv).markers
          /\ hmap' = IF LoadCsv(csv).attached
                     THEN Append(hmap, "competitor_markers") ELSE hmap
    /\ pc' = "mainlayer"
    /\ UNCHANGED <<geojson_data, buildings_data, max_weight, polygon_city,
                   city_boundary, lookups, hm, branches, filial_markers, files,
                   houses_file>>

\* line 206
AddMainLayer ==
    /\ pc = "mainlayer"
    /\ hmap' = Append(hmap, "building_density")
    /\ pc' = "control"
    /\ UNCHANGED <<geojson_data, buildings_data, max_weight, polygon_city,
                   city_boundary, lookups, hm, branches, filial_markers,
                   competitor, competitor_markers, files, houses_file>>

\* line 209
AddLayerControl ==
    /\ pc = "control"
    /\ hmap' = Append(hmap, "LayerControl")
    /\ pc' = "save"
    /\ UNCHANGED <<geojson_data, buildings_data, max_weight, polygon_city,
                   city_boundary, lookups, hm, branches, filial_markers,
                   competitor, competitor_markers, files, houses_file>>

\* lines 212-213
SaveIndex ==
    /\ pc = "save"
    /\ files' = Append(files, "index.html")
    /\ pc' = "boundary_map"
    /\ UNCHANGED <<geojson_data, buildings_data, max_weight, polygon_city,
                   city_boundary, lookups, hmap, hm, branches, filial_markers,
                   competitor, competitor_markers, houses_file>>

\* lines 216-220
SaveBoundaryMap ==
    /\ pc = "boundary_map"
    /\ files' = IF ~city_boundary.none
                THEN Append(files, "city_boundary.html") ELSE files
    /\ pc' = "done"
    /\ UNCHANGED <<geojson_data, buildings_data, max_weight, polygon_city,
                   city_boundary, lookups, hmap, hm, branches, filial_markers,
                   competitor, competitor_markers, houses_file>>

Next ==
    \/ LoadBuildings
    \/ ComputeMax
    \/ GetCityBoundary
    \/ AddBoundaryLayer
    \/ BuildHeatMap
    \/ LoadBranches
    \/ LoadCompetitors
    \/ AddMainLayer
    \/ AddLayerControl
    \/ SaveIndex
    \/ SaveBoundaryMap

Spec == Init /\ [][Next]_vars

---------------------------------------------------------------------------
(* Claims about the parser (SpecParse) *)

\* The features of the input that appended a point, in input order, once
\* the function has returned.
Emits(f) == f.geometry = "dict" /\ f.gtype = "Point" /\ f.has_coordinates
Emitting == SelectSeq(geojson_data, Emits)

\* The value of building:levels the parser looks at.
LevelsOf(f) == IF f.properties = "dict" THEN f.levels ELSE Absent

\* The weight C1 states: 10 x N when int() accepts the value, else 10.
ClaimedWeight(f) ==
    IF PyInt(LevelsOf(f)).ok THEN 10 * PyInt(LevelsOf(f)).val ELSE 10

\* C1 (as stated): every emitted weight is 10 x N when building:levels
\* parses as the integer N (string or number, zero and negative included),
\* and 10 when it is missing or does not parse.
C1_WeightIsTenTimesLevels ==
    pc = "returned" =>
        /\ Len(buildings_data) = Len(Emitting)
        /\ \A i \in 1..Len(buildings_data) :
              buildings_data[i][3] = ClaimedWeight(Emitting[i])

\* C2 (as stated): the parser never raises, and returns exactly the Point
\* features of the input, in input order, as <<lat, lon, weight>>; every
\* other feature (other geometry type, geometry absent or null) is skipped.
IsPointFeature(f) == f.geometry = "dict" /\ f.gtype = "Point"
PointFeatures == SelectSeq(geojson_data, IsPointFeature)

C2_ReturnsPointSubsequence ==
    /\ pc # "raised"
    /\ pc = "returned" =>
          /\ Len(buildings_data) = Len(PointFeatures)
          /\ \A i \in 1..Len(buildings_data) :
                /\ Len(PointFeatures[i].coordinates) = 2
                /\ buildings_data[i][1] = PointFeatures[i].coordinates[2]
                /\ buildings_data[i][2] = PointFeatures[i].coordinates[1]

\* C8 (as stated): every emitted weight is at least 10.
C8_WeightAtLeastTen ==
    pc = "returned" =>
        \A i \in 1..Len(buildings_data) : buildings_data[i][3] >= 10

\* A value the parser converts with int() to an integer below 1.
NonPositiveLevels(f) ==
    /\ Truthy(LevelsOf(f))
    /\ PyInt(LevelsOf(f)).ok
    /\ PyInt(LevelsOf(f)).val <= 0

\* C8 (amended): an emitted weight is at least 10 unless building:levels is
\* a non-empty string or non-zero number that int() turns into N <= 0; the
\* weight is then 10 x N, which is 0 or negative.
C8_WeightAtLeastTenUnlessNonPositive ==
    pc = "returned" =>
        /\ Len(buildings_data) = Len(Emitting)
        /\ \A i \in 1..Len(buildings_data) :
              IF NonPositiveLevels(Emitting[i])
              THEN /\ buildings_data[i][3] = 10 * PyInt(LevelsOf(Emitting[i])).val
                   /\ buildings_data[i][3] <= 0
              ELSE buildings_data[i][3] >= 10

\* C8 witness: a returned list holding a weight of 0 from the string "0"
\* next to a defaulted weight of 10.
C8_Witness ==
    /\ pc = "returned"
    /\ Len(buildings_data) = 2
    /\ Emitting[1].levels = Str(<<"0">>) /\ buildings_data[1][3] = 0
    /\ Emitting[2].levels = Absent /\ buildings_data[2][3] = 10

---------------------------------------------------------------------------
(* Claims about the boundary resolver (SpecBoundary) *)

\* The filter as the specification words it: a present name holding either
\* spelling of the city, or administrative level 6 or 8.
NamedOrLevelled(row) ==
    \/ /\ ~row.na
       /\ \E i \in 1..(Len(row.name) - 1) :
             /\ row.name[i] \in {"Nizhnij", "Nizhny"}
             /\ row.name[i + 1] = "Novgorod"
    \/ row.admin_level \in {"6", "8"}

NoRowMatches ==
    \A i \in 1..Len(polygon_city.rows) : ~NamedOrLevelled(polygon_city.rows[i])

FiveClosedPoints(rows) ==
    /\ Len(rows) = 1
    /\ Len(rows[1].geometry) = 5
    /\ rows[1].geometry[1] = rows[1].geometry[5]
    /\ rows[1].geometry = nizhny_novgorod_bounds

\* C4 (as stated): the resolver always yields a polygon, and yields the
\* fallback rectangle whenever the lookup raises or nothing matches.
C4_AlwaysAPolygon ==
    pc = "resolved" =>
        /\ ~city_boundary.none
        /\ (polygon_city.status = "raised" \/ NoRowMatches)
              => FiveClosedPoints(city_boundary.rows)

\* C4 (amended): the resolver always returns; its result is None when the
\* lookup raises, the 5-point rectangle when the lookup returns and no row
\* matches, and the matching rows in lookup order otherwise.
C4_FallbackOnlyWhenNothingMatches ==
    /\ pc = "lookup" => ENABLED ResolveBoundary
    /\ pc = "resolved" =>
          /\ polygon_city.status = "raised" => city_boundary.none
          /\ (polygon_city.status = "returned" /\ NoRowMatches) =>
                ~city_boundary.none /\ FiveClosedPoints(city_boundary.rows)
          /\ (polygon_city.status = "returned" /\ ~NoRowMatches) =>
                /\ ~city_boundary.none
                /\ city_boundary.rows = SelectSeq(polygon_city.rows, NamedOrLevelled)

\* C4 witness: the lookup raised and the resolver returned None.
C4_Witness ==
    /\ pc = "resolved"
    /\ polygon_city.status = "raised"
    /\ city_boundary.none

---------------------------------------------------------------------------
(* Claims about the script (Spec) *)

Elems(seq) == {seq[i] : i \in 1..Len(seq)}
IndexOf(seq, x) == CHOOSE i \in 1..Len(seq) : seq[i] = x

\* A pc at which the script has stopped.
Stopped == pc \in {"done", "aborted"}

\* C3: when the boundary lookup raises, no boundary layer is ever added,
\* city_boundary.html is never written, the script does not abort and goes
\* on until it ends, with index.html written.
C3_LookupFailureSkipsBoundary ==
    polygon_city.status = "raised" =>
        /\ "city_boundary_layer" \notin Elems(hmap)
        /\ "city_boundary.html" \notin Elems(files)
        /\ pc # "aborted"
        /\ ~Stopped => ENABLED Next
        /\ pc = "done" => "index.html" \in Elems(files)

\* C3 witness: a finished run whose lookup raised.
C3_Witness ==
    /\ pc = "done"
    /\ polygon_city.status = "raised"
    /\ files = <<"index.html">>

\* C5: a missing branches.csv (competitors.csv) leaves the map without that
\* layer, nothing aborts the script, and the script goes on to write
\* index.html.
C5_MissingCsvOmitsLayer ==
    /\ branches.status = "missing" =>
          /\ "filial_markers" \notin Elems(hmap)
          /\ pc # "aborted"
          /\ ~Stopped => ENABLED Next
          /\ pc = "done" => "index.html" \in Elems(files)
    /\ competitor.status = "missing" =>
          /\ "competitor_markers" \notin Elems(hmap)
          /\ pc # "aborted"
          /\ ~Stopped => ENABLED Next
          /\ pc = "done" => "index.html" \in Elems(files)

\* C5 witness: a finished run with both CSV files missing.
C5_Witness ==
    /\ pc = "done"
    /\ branches.status = "missing"
    /\ competitor.status = "missing"
    /\ "index.html" \in Elems(files)
    /\ hmap[Len(hmap) - 1] = "building_density"

\* Some parsed point carries the largest weight w, and max_val is 0.4 x w.
MaxValFromLargestWeight ==
    \E i \in 1..Len(buildings_data) :
        /\ \A j \in 1..Len(buildings_data) :
              buildings_data[i][3] >= buildings_data[j][3]
        /\ ~hm.max_val.nan
        /\ hm.max_val.val = 4 * buildings_data[i][3]
        /\ hm.max_val.val = 40 * (buildings_data[i][3] \div 10)
        /\ buildings_data[i][3] % 10 = 0

\* C6 (as stated): for every building list the heat map's max value is
\* 0.4 x the largest parsed weight, i.e. 4 x the largest floor count
\* (max_val is held in tenths).
C6_MaxValIsFourTenthsOfMax == hm.built => MaxValFromLargestWeight

\* C6 (amended): that holds whenever at least one point was parsed; with no
\* parsed point the maximum, and with it max_val, is NaN.
C6_MaxValIsFourTenthsOfMaxOrNaN ==
    hm.built =>
        IF buildings_data = <<>> THEN hm.max_val.nan ELSE MaxValFromLargestWeight

\* C6 witness: a heat map over two points of different weight, the larger
\* one first.
C6_Witness ==
    /\ hm.built
    /\ Len(buildings_data) = 2
    /\ buildings_data[1][3] = 30
    /\ buildings_data[2][3] = 10
    /\ hm.max_val = Number(120)

\* Whenever both layers are children of the map, a was added before b.
Before(a, b) ==
    (a \in Elems(hmap) /\ b \in Elems(hmap)) => IndexOf(hmap, a) < IndexOf(hmap, b)

\* The layer control, once attached, is the last child.
ControlIsLast ==
    "LayerControl" \in Elems(hmap) => hmap[Len(hmap)] = "LayerControl"

\* C7 (as stated): boundary, heat map, branches, competitors, in this
\* order, the heat map always present when index.html is written, and the
\* layer control after all of them.
C7_HeatmapBeforeMarkers ==
    /\ Before("city_boundary_layer", "building_density")
    /\ Before("building_density", "filial_markers")
    /\ Before("building_density", "competitor_markers")
    /\ Before("filial_markers", "competitor_markers")
    /\ ControlIsLast
    /\ "index.html" \in Elems(files) => "building_density" \in Elems(hmap)

\* C7 (amended): boundary (if resolved), branches (if loaded), competitors
\* (if loaded), heat map (always), in this order, and the layer control
\* after all of them.
C7_HeatmapAfterMarkers ==
    /\ Before("city_boundary_layer", "filial_markers")
    /\ Before("city_boundary_layer", "competitor_markers")
    /\ Before("city_boundary_layer", "building_density")
    /\ Before("filial_markers", "competitor_markers")
    /\ Before("filial_markers", "building_density")
    /\ Before("competitor_markers", "building_density")
    /\ ControlIsLast
    /\ Cardinality(Elems(hmap)) = Len(hmap)
    /\ "index.html" \in Elems(files) =>
          /\ "building_density" \in Elems(hmap)
          /\ "LayerControl" \in Elems(hmap)
          /\ "city_boundary_layer" \in Elems(hmap) <=> ~city_boundary.none

\* C7 witness: a saved map holding all four layers and the control.
C7_Witness ==
    /\ "index.html" \in Elems(files)
    /\ hmap = <<"city_boundary_layer", "filial_markers", "competitor_markers",
                "building_density", "LayerControl">>

\* The call on line 101 has returned.
Loaded == pc \notin {"load", "aborted"}

\* C9: a missing or malformed houses.geojson aborts the script before any
\* lookup or write, and the script aborts nowhere but in that load: once
\* the load has returned the script goes on to write index.html whatever
\* the lookup and the CSV loads did; city_boundary.html is written after
\* index.html and only with a boundary.
C9_OnlyTheLoadIsFatal ==
    /\ houses_file \in {"missing", "malformed"} => pc = "aborted"
    /\ pc = "aborted" =>
          lookups = 0 /\ files = <<>> /\ hmap = <<>> /\ polygon_city = Unset
    /\ Loaded =>
          /\ houses_file = "decoded"
          /\ pc # "done" => ENABLED Next
          /\ pc \in {"boundary_map", "done"} <=> "index.html" \in Elems(files)
    /\ "city_boundary.html" \in Elems(files) =>
          /\ files = <<"index.html", "city_boundary.html">>
          /\ ~city_boundary.none

\* C9 witness: a finished run in which the lookup raised and both CSV loads
\* failed, with index.html written.
C9_Witness ==
    /\ pc = "done"
    /\ houses_file = "decoded"
    /\ polygon_city.status = "raised"
    /\ branches.status = "error"
    /\ competitor.status = "missing"
    /\ files = <<"index.html">>

AllRowsGood(csv) ==
    csv.status = "read" /\ \A i \in 1..Len(csv.rows) : ~MarkerRaises(csv.rows[i])

\* The layer is a child of the map only with one marker per row of its CSV.
AllOrNothing(layer, csv, markers) ==
    /\ layer \in Elems(hmap) =>
          /\ csv.status = "read"
          /\ Len(markers) = Len(csv.rows)
          /\ \A i \in 1..Len(markers) :
                markers[i] = <<csv.rows[i].lat, csv.rows[i].lon, csv.rows[i].name>>
    /\ (csv.status \in {"missing", "error", "read"} /\ ~AllRowsGood(csv)) =>
          layer \notin Elems(hmap)

\* C10: each marker layer is attached only after every row of its CSV
\* became a marker, so a failing row or read leaves the map without the
\* layer; and a failed branch load does not keep the competitor layer, the
\* heat map layer or the layer control from being added.
C10_MarkerLayersAllOrNothing ==
    /\ AllOrNothing("filial_markers", branches, filial_markers)
    /\ AllOrNothing("competitor_markers", competitor, competitor_markers)
    /\ (branches.status \in {"missing", "error", "read"} /\ ~AllRowsGood(branches)) =>
          /\ pc # "aborted"
          /\ AllRowsGood(competitor) => "competitor_markers" \in Elems(hmap)
          /\ "index.html" \in Elems(files) =>
                /\ "building_density" \in Elems(hmap)
                /\ "LayerControl" \in Elems(hmap)

\* C10 witness: the second branch row raised after a marker had been made,
\* the branch layer is missing from the saved map and the competitor layer
\* is on it.
C10_Witness ==
    /\ pc = "done"
    /\ branches.status = "read"
    /\ Len(branches.rows) = 2
    /\ Len(filial_markers) = 1
    /\ "filial_markers" \notin Elems(hmap)
    /\ "competitor_markers" \in Elems(hmap)
    /\ Len(competitor_markers) = 1

====
